---------------------------- MODULE Spec2Model ----------------------------
(***************************************************************************)
(* stupid-stats (src/src/mod.rs): the driver callback after_analysis walks *)
(* the parsed crate with a StupidVisitor, which counts the `println!`      *)
(* macro invocations and the number of arguments of every fn item, and     *)
(* then prints three statistics computed by compute_arg_stats.             *)
(*                                                                         *)
(* The crate is the input.  It is an ordered forest: node i of `krate` has *)
(* a parent (0 = the crate root) that precedes it, and the children of a   *)
(* node are the nodes naming it as parent, in source (index) order.  Only  *)
(* the nodes the visitor overrides a hook for are kept: items and macro    *)
(* invocations; the expressions, blocks and statements between an item and *)
(* the items and macros nested in it are elided.  A macro invocation holds *)
(* a path and an unparsed token stream, hence it has no child nodes.       *)
(***************************************************************************)
EXTENDS Naturals, Sequences, FiniteSets

VARIABLES
    krate,      \* the crate handed over by the compiler (read only)
    pc,         \* position in after_analysis: "idle", "walking", "done", "panicked"
    stack,      \* the walk's continuation: the nodes still to visit, next first
    visitor,    \* <<>> before construction, <<self>> once StupidVisitor::new ran
    reports,    \* what each completed analysis printed, oldest first
    visited     \* history: the nodes whose hook has run in this analysis, in order

vars == <<krate, pc, stack, visitor, reports, visited>>

---------------------------------------------------------------------------
(* Bounds of the model. *)

MaxNodes == 3

MaxArgs == 2

MaxLen == 5

MaxCount == 2

---------------------------------------------------------------------------
(* The syntax tree. *)

\* Paths of macro invocations: a sequence of segment identifiers.
Paths ==
    { <<"println">>, <<"print">>, <<"Println">>, <<"std", "println">>, <<>> }

FnNode(n, p) == [kind |-> "Fn", inputs |-> n, path |-> <<>>, parent |-> p]

OtherNode(p) == [kind |-> "Other", inputs |-> 0, path |-> <<>>, parent |-> p]

MacNode(path, p) == [kind |-> "Mac", inputs |-> 0, path |-> path, parent |-> p]

\* A node without its position in the tree.
NodeShapes ==
    {FnNode(n, 0) : n \in 0..MaxArgs} \cup {OtherNode(0)}
        \cup {MacNode(path, 0) : path \in Paths}

\* The nodes a new node can be nested in: the crate root and every item.
Parents(k) == {0} \cup {i \in DOMAIN k : k[i].kind # "Mac"}

\* Every forest of n nodes: one of n - 1 nodes and a last node in it.
RECURSIVE CratesOfSize(_)
CratesOfSize(n) ==
    IF n = 0 THEN {<<>>}
    ELSE { Append(x[1], [x[2] EXCEPT !.parent = x[3]]) :
             x \in { y \in CratesOfSize(n - 1) \X NodeShapes \X (0..n - 1) :
                       y[3] \in Parents(y[1]) } }

\* fn outer() { println!(..); mod m { fn inner() { println!(..) } } } println!(..)
\* with the three invocations at nesting depths 1, 3 and 0.
NestedExample ==
    << FnNode(0, 0), MacNode(<<"println">>, 1), OtherNode(1), FnNode(1, 3),
       MacNode(<<"println">>, 4), MacNode(<<"println">>, 0) >>

\* print!(..); Println!(..); println!(..)
CaseExample ==
    << MacNode(<<"print">>, 0), MacNode(<<"Println">>, 0),
       MacNode(<<"println">>, 0) >>

RECURSIVE CratesUpTo(_)
CratesUpTo(n) ==
    IF n = 0 THEN CratesOfSize(0) ELSE CratesOfSize(n) \cup CratesUpTo(n - 1)

Crates == CratesUpTo(MaxNodes) \cup {NestedExample, CaseExample}

RECURSIVE ChildrenFrom(_, _, _)
ChildrenFrom(k, p, i) ==
    IF i > Len(k) THEN <<>>
    ELSE IF k[i].parent = p THEN <<i>> \o ChildrenFrom(k, p, i + 1)
    ELSE ChildrenFrom(k, p, i + 1)

Children(k, p) == ChildrenFrom(k, p, 1)

---------------------------------------------------------------------------
(* f64 arithmetic.  Every operand here is an integer far below 2^53, so    *)
(* the casts and the product 100.0 * c are exact and the quotient is the   *)
(* double nearest to the rational; two quotients are the same double       *)
(* exactly when the rationals are equal.  A value is kept as the reduced   *)
(* fraction; 0.0 / 0.0 is NaN and c / 0.0 with c > 0 is +inf.              *)

RECURSIVE GCD(_, _)
GCD(a, b) == IF b = 0 THEN a ELSE GCD(b, a % b)

NaN == [num |-> 0, den |-> 0]

Inf == [num |-> 1, den |-> 0]

F64Div(a, b) ==
    IF b = 0 THEN (IF a = 0 THEN NaN ELSE Inf)
    ELSE [num |-> a \div GCD(a, b), den |-> b \div GCD(a, b)]

---------------------------------------------------------------------------
(* StupidVisitor. *)

\* Variant: the visitor of an earlier analysis is kept and used again.
StupidVisitor_new_reused ==
    IF visitor = <<>> THEN [println_count |-> 0, arg_counts |-> <<>>]
    ELSE visitor[1]

StupidVisitor_new == [println_count |-> 0, arg_counts |-> <<>>]

\* Vec::resize(new_len, value): truncates or extends with `value`.
RECURSIVE resize(_, _, _)
resize(v, new_len, value) ==
    IF Len(v) = new_len THEN v
    ELSE IF Len(v) > new_len THEN SubSeq(v, 1, new_len)
    ELSE resize(Append(v, value), new_len, value)

\* Variant: the vector is grown only when it is shorter than args.
increment_args_short(self, args) ==
    LET grown == IF Len(self.arg_counts) < args
                 THEN resize(self.arg_counts, args + 1, 0)
                 ELSE self.arg_counts
    IN  IF args < Len(grown)
        THEN [ok |-> TRUE,
              self |-> [self EXCEPT !.arg_counts =
                                        [grown EXCEPT ![args + 1] = @ + 1]]]
        ELSE [ok |-> FALSE, self |-> self]

\* The visitor after the indexed increment; ok is FALSE when the bounds
\* check of arg_counts[args] fails (a panic).
increment_args(self, args) ==
    LET grown == IF Len(self.arg_counts) <= args
                 THEN resize(self.arg_counts, args + 1, 0)
                 ELSE self.arg_counts
    IN  IF args < Len(grown)
        THEN [ok |-> TRUE,
              self |-> [self EXCEPT !.arg_counts =
                                        [grown EXCEPT ![args + 1] = @ + 1]]]
        ELSE [ok |-> FALSE, self |-> self]

StatsStart == [total |-> 0, four_or_more |-> 0, common |-> 0, common_index |-> 0]

\* Variant: `c >= common`, the last of several tied indices wins.
StatsStep_last_tie(acc, i, c) ==
    [total        |-> acc.total + c,
     four_or_more |-> IF i >= 4 THEN acc.four_or_more + c ELSE acc.four_or_more,
     common       |-> IF c >= acc.common THEN c ELSE acc.common,
     common_index |-> IF c >= acc.common THEN i ELSE acc.common_index]

\* Variant: `i > 4`, functions with exactly four arguments are left out.
StatsStep_above_four(acc, i, c) ==
    [total        |-> acc.total + c,
     four_or_more |-> IF i > 4 THEN acc.four_or_more + c ELSE acc.four_or_more,
     common       |-> IF c > acc.common THEN c ELSE acc.common,
     common_index |-> IF c > acc.common THEN i ELSE acc.common_index]

\* Variant: the index moves on every non-zero count, not only on a larger one.
StatsStep_stray_index(acc, i, c) ==
    [total        |-> acc.total + c,
     four_or_more |-> IF i >= 4 THEN acc.four_or_more + c ELSE acc.four_or_more,
     common       |-> IF c > acc.common THEN c ELSE acc.common,
     common_index |-> IF c > 0 THEN i ELSE acc.common_index]

\* One iteration of the loop of compute_arg_stats, at index i with count c.
StatsStep(acc, i, c) ==
    [total        |-> acc.total + c,
     four_or_more |-> IF i >= 4 THEN acc.four_or_more + c ELSE acc.four_or_more,
     common       |-> IF c > acc.common THEN c ELSE acc.common,
     common_index |-> IF c > acc.common THEN i ELSE acc.common_index]

RECURSIVE StatsLoop(_, _, _)
StatsLoop(arg_counts, i, acc) ==
    IF i >= Len(arg_counts) THEN acc
    ELSE StatsLoop(arg_counts, i + 1, StatsStep(acc, i, arg_counts[i + 1]))

compute_arg_stats(self) ==
    LET s == StatsLoop(self.arg_counts, 0, StatsStart)
    IN  [common         |-> s.common_index,
         common_percent |-> F64Div(100 * s.common, s.total),
         four_percent   |-> F64Div(100 * s.four_or_more, s.total)]

\* Variant: only the last segment is rendered.
path_to_string_last_segment(path) ==
    IF path = <<>> THEN "" ELSE path[Len(path)]

\* pprust::path_to_string: the segments' identifiers joined by "::".
RECURSIVE path_to_string(_)
path_to_string(path) ==
    IF path = <<>> THEN ""
    ELSE IF Len(path) = 1 THEN path[1]
    ELSE path[1] \o "::" \o path_to_string(Tail(path))

\* Variant: every item is taken for a fn.
ItemIsFn_any_item(node) == node.kind # "Mac"

\* `if let ast::ItemKind::Fn(..) = i.kind`
ItemIsFn(node) == node.kind = "Fn"

\* The hook's own work in visit_item, before it walks on.
visit_item_record(self, node) ==
    IF ItemIsFn(node) THEN increment_args(self, node.inputs)
    ELSE [ok |-> TRUE, self |-> self]

\* Lower-casing of the identifiers that occur in Paths.
ToLower(s) == IF s = "Println" THEN "println" ELSE s

\* Variant: the name is compared without regard to case.
visit_mac_record_caseless(self, node) ==
    IF ToLower(path_to_string(node.path)) = "println"
    THEN [self EXCEPT !.println_count = @ + 1]
    ELSE self

\* The hook's own work in visit_mac, before it walks on.
visit_mac_record(self, node) ==
    IF path_to_string(node.path) = "println"
    THEN [self EXCEPT !.println_count = @ + 1]
    ELSE self

\* visit::walk_crate: the crate's own items and macros are visited in order.
walk_crate(k) == Children(k, 0)

\* Variant: the hook returns without walking the item.
walk_item_pruned(k, i, rest) == rest

\* visit::walk_item(self, i): what is nested in item i is visited next,
\* before the rest.
walk_item(k, i, rest) == Children(k, i) \o rest

\* visit::walk_mac(self, mac): only the path is walked.
walk_mac(k, i, rest) == Children(k, i) \o rest

---------------------------------------------------------------------------
(* after_analysis. *)

Self == visitor[1]

Last(s) == s[Len(s)]

TypeOK ==
    /\ pc \in {"idle", "walking", "done", "panicked"}
    /\ Len(visitor) <= 1
    /\ Len(reports) <= 2

Init ==
    /\ krate \in Crates
    /\ pc = "idle"
    /\ stack = <<>>
    /\ visitor = <<>>
    /\ reports = <<>>
    /\ visited = <<>>

\* Lines 89-92: take the crate, construct the visitor, enter walk_crate.
\* The program is run once per process; it may be run again on the same crate.
AfterAnalysisBegin ==
    /\ pc \in {"idle", "done"}
    /\ Len(reports) < 2
    /\ pc' = "walking"
    /\ visitor' = <<StupidVisitor_new>>
    /\ stack' = walk_crate(krate)
    /\ visited' = <<>>
    /\ UNCHANGED <<krate, reports>>

VisitItem ==
    /\ pc = "walking"
    /\ stack # <<>>
    /\ krate[Head(stack)].kind # "Mac"
    /\ LET i == Head(stack)
           r == visit_item_record(Self, krate[i])
       IN  IF r.ok
           THEN /\ visitor' = <<r.self>>
                /\ stack' = walk_item(krate, i, Tail(stack))
                /\ visited' = Append(visited, i)
                /\ pc' = "walking"
           ELSE /\ pc' = "panicked"
                /\ UNCHANGED <<visitor, stack, visited>>
    /\ UNCHANGED <<krate, reports>>

VisitMac ==
    /\ pc = "walking"
    /\ stack # <<>>
    /\ krate[Head(stack)].kind = "Mac"
    /\ LET i == Head(stack)
       IN  /\ visitor' = <<visit_mac_record(Self, krate[i])>>
           /\ stack' = walk_mac(krate, i, Tail(stack))
           /\ visited' = Append(visited, i)
    /\ UNCHANGED <<krate, pc, reports>>

\* Lines 94-111: walk_crate has returned; compute and print the statistics.
AfterAnalysisEnd ==
    /\ pc = "walking"
    /\ stack = <<>>
    /\ pc' = "done"
    /\ reports' = Append(reports,
                         [println_count |-> Self.println_count,
                          stats |-> compute_arg_stats(Self)])
    /\ UNCHANGED <<krate, stack, visitor, visited>>

Next == AfterAnalysisBegin \/ VisitItem \/ VisitMac \/ AfterAnalysisEnd

Spec == Init /\ [][Next]_vars

---------------------------------------------------------------------------
(* compute_arg_stats and increment_args over arbitrary histograms.  The    *)
(* walk of a crate with many functions is entered at its last step: the    *)
(* crate is a flat list of fn items realising a histogram h, followed by   *)
(* one more item; all but the last have been visited.                      *)

\* The histograms a walk can leave behind: increment_args only ever grows
\* the vector to make room for the entry it increments, so a non-empty
\* histogram ends in a non-zero count.
RECURSIVE HistogramsOfLen(_)
HistogramsOfLen(n) ==
    IF n = 0 THEN {<<>>}
    ELSE IF n = 1 THEN {<<c>> : c \in 1..MaxCount}
    ELSE { <<x[1]>> \o x[2] : x \in (0..MaxCount) \X HistogramsOfLen(n - 1) }

RECURSIVE HistogramsUpTo(_)
HistogramsUpTo(n) ==
    IF n = 0 THEN HistogramsOfLen(0)
    ELSE HistogramsOfLen(n) \cup HistogramsUpTo(n - 1)

\* The examples the documentation of the statistics works through.
TieExample == <<2, 5, 5, 1>>

Histograms == HistogramsUpTo(MaxLen) \cup {TieExample}

RECURSIVE Repeat(_, _)
Repeat(x, n) == IF n = 0 THEN <<>> ELSE <<x>> \o Repeat(x, n - 1)

\* h[1] fns without arguments, then h[2] fns with one argument, ...
RECURSIVE FlatCrateFrom(_, _)
FlatCrateFrom(h, i) ==
    IF i > Len(h) THEN <<>>
    ELSE Repeat(FnNode(i - 1, 0), h[i]) \o FlatCrateFrom(h, i + 1)

FlatCrate(h) == FlatCrateFrom(h, 1)

Iota(n) == [i \in 1..n |-> i]

LastNodes ==
    {FnNode(n, 0) : n \in 0..MaxLen} \cup {OtherNode(0)}
        \cup {MacNode(path, 0) : path \in Paths}

InitStats ==
    \E h \in Histograms, last \in LastNodes :
        /\ krate = Append(FlatCrate(h), last)
        /\ pc = "walking"
        /\ stack = <<Len(FlatCrate(h)) + 1>>
        /\ visitor = <<[println_count |-> 0, arg_counts |-> h]>>
        /\ reports = <<>>
        /\ visited = Iota(Len(FlatCrate(h)))

NextStats == VisitItem \/ VisitMac \/ AfterAnalysisEnd

SpecStats == InitStats /\ [][NextStats]_vars

---------------------------------------------------------------------------
(* Vocabulary of the properties. *)

\* Entry k of a histogram; an index beyond its end counts nothing.
Entry(h, k) == IF k < Len(h) THEN h[k + 1] ELSE 0

\* The sum of the entries at (0-based) indices >= i.
RECURSIVE SumFrom(_, _)
SumFrom(h, i) == IF i >= Len(h) THEN 0 ELSE h[i + 1] + SumFrom(h, i + 1)

Total(h) == SumFrom(h, 0)

IsMax(h, m) == (\E j \in DOMAIN h : h[j] = m) /\ (\A j \in DOMAIN h : h[j] <= m)

\* The positions of `visited` that hold a node satisfying the description.
VisitsOfFn == {j \in DOMAIN visited : krate[visited[j]].kind = "Fn"}

VisitsOfFnWith(k) == {j \in VisitsOfFn : krate[visited[j]].inputs = k}

\* The rendered path is exactly "println": one segment, that identifier.
IsPrintln(node) == node.kind = "Mac" /\ node.path = <<"println">>

VisitsOfPrintln == {j \in DOMAIN visited : IsPrintln(krate[visited[j]])}

RECURSIVE Depth(_, _)
Depth(k, i) == IF k[i].parent = 0 THEN 0 ELSE 1 + Depth(k, k[i].parent)

Hist == Self.arg_counts

Printed == Last(reports)

---------------------------------------------------------------------------
(* C1.  For a crate without fn items the analysis reports an explicit      *)
(* empty-input outcome: neither percentage is the quotient of a division   *)
(* by a total of 0.                                                        *)
C1_EmptyInputSignalled ==
    \A j \in DOMAIN reports :
        (\A i \in DOMAIN krate : krate[i].kind # "Fn")
            => /\ reports[j].stats.common_percent.den # 0
               /\ reports[j].stats.four_percent.den # 0

(* C2.  At every point of a walk the histogram's entry k is the number of  *)
(* fn items with k arguments visited so far, and the sum of its entries is *)
(* the number of fn items visited; other items and macros add nothing.     *)
C2_HistogramCountsFns ==
    visitor # <<>> =>
        /\ Total(Hist) = Cardinality(VisitsOfFn)
        /\ \A k \in 0..Len(Hist) : Entry(Hist, k) = Cardinality(VisitsOfFnWith(k))

C2_Witness ==
    /\ pc = "done"
    /\ Total(Hist) = 2
    /\ \E a, b, c \in DOMAIN visited :
          /\ krate[visited[a]].kind = "Other"
          /\ krate[visited[b]].kind = "Mac"
          /\ krate[visited[c]].kind = "Fn"

(* C3.  With at least one function recorded, the reported most common      *)
(* number of arguments is the lowest index holding the maximum count.      *)
C3_ModalIsFirstMaximum ==
    (pc = "done" /\ Total(Hist) > 0) =>
        LET m == Printed.stats.common
        IN  /\ m < Len(Hist)
            /\ IsMax(Hist, Hist[m + 1])
            /\ \A j \in 0..Len(Hist) - 1 : j < m => Hist[j + 1] < Hist[m + 1]

C3_Witness ==
    /\ pc = "done"
    /\ Hist = <<2, 5, 5, 1>>
    /\ Printed.stats.common = 1

(* C4.  The count of `println!` uses is the number of visited macro        *)
(* invocations whose path renders exactly, case-sensitively, as "println"; *)
(* any other path is a non-match and never an error.                       *)
C4_CountsExactMatches ==
    /\ pc # "panicked"
    /\ visitor # <<>> => Self.println_count = Cardinality(VisitsOfPrintln)
    /\ pc = "done" => Printed.println_count = Cardinality(VisitsOfPrintln)

C4_Witness ==
    /\ pc = "done"
    /\ \E a, b, c \in DOMAIN visited :
          /\ krate[visited[a]].path = <<"print">>
          /\ krate[visited[b]].path = <<"Println">>
          /\ krate[visited[c]].path = <<"println">>
    /\ Len(visited) = 3
    /\ Printed.println_count = 1

(* C5.  The walk never prunes: no node is visited twice, and when the walk *)
(* is over every item and macro invocation of the crate has been visited   *)
(* exactly once, so every `println!` at any nesting depth is counted.      *)
C5_EveryNodeVisitedOnce ==
    /\ \A a, b \in DOMAIN visited : visited[a] = visited[b] => a = b
    /\ pc = "done" =>
          /\ \A i \in DOMAIN krate : \E j \in DOMAIN visited : visited[j] = i
          /\ Printed.println_count =
                Cardinality({i \in DOMAIN krate : IsPrintln(krate[i])})

C5_Witness ==
    /\ pc = "done"
    /\ Printed.println_count = 3
    /\ \E a, b, c \in DOMAIN krate :
          /\ IsPrintln(krate[a]) /\ IsPrintln(krate[b]) /\ IsPrintln(krate[c])
          /\ Depth(krate, a) = 0
          /\ Depth(krate, b) = 1 /\ krate[krate[b].parent].kind = "Fn"
          /\ Depth(krate, c) >= 2 /\ krate[krate[krate[c].parent].parent].kind = "Other"

(* C6.  With at least one function recorded, the reported share of         *)
(* functions with four or more arguments is 100 * (sum of the entries at   *)
(* indices >= 4) / (sum of all entries).                                   *)
C6_FourOrMorePercent ==
    (pc = "done" /\ Total(Hist) > 0) =>
        LET p == Printed.stats.four_percent
        IN  /\ p.den > 0
            /\ p.num * Total(Hist) = 100 * SumFrom(Hist, 4) * p.den

C6_Witness ==
    /\ pc = "done"
    /\ Hist = <<1, 1, 1, 1, 1, 1>>
    /\ Printed.stats.four_percent = [num |-> 100, den |-> 3]

(* C7.  With at least one function recorded, the reported share of the     *)
(* most common number of arguments is 100 * (the count at the reported     *)
(* index) / (sum of all entries); that count is >= every entry and the     *)
(* share lies between 0 and 100.                                           *)
C7_ModalPercent ==
    (pc = "done" /\ Total(Hist) > 0) =>
        LET m == Printed.stats.common
            p == Printed.stats.common_percent
        IN  /\ m < Len(Hist)
            /\ p.den > 0
            /\ p.num * Total(Hist) = 100 * Hist[m + 1] * p.den
            /\ \A j \in DOMAIN Hist : Hist[j] <= Hist[m + 1]
            /\ p.num <= 100 * p.den

C7_Witness ==
    /\ pc = "done"
    /\ Hist = <<1, 0, 2>>
    /\ Printed.stats.common = 2
    /\ Printed.stats.common_percent = [num |-> 200, den |-> 3]

(* C8.  Every analysis starts its walk with a fresh visitor (count 0,      *)
(* empty histogram), and two analyses of the same crate print identical    *)
(* reports.                                                                *)
C8_SameReportEachRun ==
    /\ (pc = "walking" /\ visited = <<>>)
          => Self = [println_count |-> 0, arg_counts |-> <<>>]
    /\ \A i, j \in DOMAIN reports : reports[i] = reports[j]

C8_Witness ==
    /\ Len(reports) = 2
    /\ reports[2].println_count > 0
    /\ reports[2].stats.common > 0

(* C9.  Recording a function with k arguments never fails its bounds       *)
(* check; it leaves a histogram of length max(old length, k + 1) whose     *)
(* entry k is one more than before (0 when it did not exist) and whose     *)
(* other entries are as before (0 for the new ones); and no step of a walk *)
(* shortens the histogram.                                                 *)
C9_RecordFunction ==
    [][ /\ pc' # "panicked"
        /\ (pc = "walking" /\ pc' = "walking") =>
              Len(visitor'[1].arg_counts) >= Len(Hist)
        /\ (pc = "walking" /\ stack # <<>> /\ krate[Head(stack)].kind = "Fn") =>
              LET k  == krate[Head(stack)].inputs
                  h1 == visitor'[1].arg_counts
              IN  /\ Len(h1) = IF Len(Hist) > k THEN Len(Hist) ELSE k + 1
                  /\ \A j \in 0..Len(h1) - 1 :
                        h1[j + 1] = IF j = k THEN Entry(Hist, j) + 1
                                    ELSE Entry(Hist, j)
      ]_vars

C9_Witness ==
    /\ pc = "walking"
    /\ stack = <<>>
    /\ krate = <<FnNode(0, 0), FnNode(3, 0)>>
    /\ Hist = <<1, 0, 0, 1>>

(* C10.  During a walk the `println!` count never decreases: the visit of  *)
(* a macro invocation adds 1 when its path is exactly "println" and 0      *)
(* otherwise and leaves the histogram alone; the visit of an item leaves   *)
(* the count alone.                                                        *)
C10_CountMonotone ==
    [][ pc = "walking" =>
          LET self1 == visitor'[1]
          IN  /\ self1.println_count >= Self.println_count
              /\ IF stack = <<>> THEN self1 = Self
                 ELSE IF krate[Head(stack)].kind = "Mac"
                 THEN /\ self1.println_count = Self.println_count
                            + (IF IsPrintln(krate[Head(stack)]) THEN 1 ELSE 0)
                      /\ self1.arg_counts = Self.arg_counts
                 ELSE self1.println_count = Self.println_count
      ]_vars

C10_Witness ==
    /\ pc = "walking"
    /\ Self.println_count = 1
    /\ Len(visited) = 3
    /\ krate[visited[1]].path = <<"println">>
    /\ krate[visited[2]].path = <<"Println">>
    /\ krate[visited[3]].kind = "Fn"

=============================================================================
